---- MODULE Spec2Model ----
(* A model of task2.py: the Field validators, Record, AddressBook, the       *)
(* command handlers behind input_error, and the command loop of main.        *)
(* A Python str is a sequence of characters; a character is a one-symbol     *)
(* TLA+ string, or one of the named non-ASCII characters below.              *)
EXTENDS Integers, Sequences, FiniteSets, TLC

VARIABLES contacts, rec, out, last, pc, file

vars == <<contacts, rec, out, last, pc, file>>

-----------------------------------------------------------------------------
(* Characters and the str methods the program calls.                         *)

UpperCase == <<"A","B","C","D","E","F","G","H","I","J","K","L","M",
               "N","O","P","Q","R","S","T","U","V","W","X","Y","Z">>
LowerCase == <<"a","b","c","d","e","f","g","h","i","j","k","l","m",
               "n","o","p","q","r","s","t","u","v","w","x","y","z">>

AsciiDigits == <<"0","1","2","3","4","5","6","7","8","9">>

\* U+0663 ARABIC-INDIC DIGIT THREE: a decimal digit (category Nd) that is not 0-9.
ArabicThree == "U+0663"
\* U+00B2 SUPERSCRIPT TWO: str.isdigit() is True, but it is no decimal digit.
SuperTwo == "U+00B2"

IsAsciiDigit(c) == \E i \in 1..Len(AsciiDigits) : AsciiDigits[i] = c

\* What the regular expression class \d matches on a str pattern.
IsDecimalChar(c) == IsAsciiDigit(c) \/ c = ArabicThree

\* int() of one decimal character.
DigitVal(c) ==
    IF c = ArabicThree THEN 3
    ELSE (CHOOSE i \in 1..Len(AsciiDigits) : AsciiDigits[i] = c) - 1

IsSpace(c) == c \in {" ", "\t", "\n"}

LowerChar(c) ==
    IF \E i \in 1..Len(UpperCase) : UpperCase[i] = c
    THEN LowerCase[CHOOSE i \in 1..Len(UpperCase) : UpperCase[i] = c]
    ELSE c

UpperChar(c) ==
    IF \E i \in 1..Len(LowerCase) : LowerCase[i] = c
    THEN UpperCase[CHOOSE i \in 1..Len(LowerCase) : LowerCase[i] = c]
    ELSE c

\* str.lower()
lower(s) == [i \in 1..Len(s) |-> LowerChar(s[i])]

\* str.capitalize()
capitalize(s) ==
    [i \in 1..Len(s) |-> IF i = 1 THEN UpperChar(s[i]) ELSE LowerChar(s[i])]

\* The characters str.isdigit() accepts.
IsDigitChar(c) == IsAsciiDigit(c) \/ c = ArabicThree \/ c = SuperTwo

\* str.isdigit(): false on the empty string.
isdigit(s) == Len(s) > 0 /\ \A i \in 1..Len(s) : IsDigitChar(s[i])

RECURSIVE SplitFrom(_, _, _, _)
SplitFrom(s, i, cur, acc) ==
    IF i > Len(s)
    THEN IF cur = <<>> THEN acc ELSE Append(acc, cur)
    ELSE IF IsSpace(s[i])
         THEN SplitFrom(s, i + 1, <<>>, IF cur = <<>> THEN acc ELSE Append(acc, cur))
         ELSE SplitFrom(s, i + 1, Append(cur, s[i]), acc)

\* str.split() with no separator: runs of whitespace separate, none is kept.
split(s) == SplitFrom(s, 1, <<>>, <<>>)

RECURSIVE StripLeft(_)
StripLeft(s) ==
    IF s # <<>> /\ IsSpace(Head(s)) THEN StripLeft(Tail(s)) ELSE s

RECURSIVE StripRight(_)
StripRight(s) ==
    IF s # <<>> /\ IsSpace(s[Len(s)])
    THEN StripRight(SubSeq(s, 1, Len(s) - 1))
    ELSE s

\* str.strip()
strip(s) == StripRight(StripLeft(s))

RECURSIVE join(_, _)
\* sep.join(parts)
join(sep, parts) ==
    IF parts = <<>> THEN <<>>
    ELSE IF Len(parts) = 1 THEN parts[1]
    ELSE parts[1] \o sep \o join(sep, Tail(parts))

-----------------------------------------------------------------------------
(* Results of a call: a returned value or a raised exception.                *)

NoDay == [y |-> 0, m |-> 0, d |-> 0, tod |-> 0]

\* return None
RetNone == [kind |-> "none", exc |-> "", msg |-> "", text |-> <<>>, list |-> <<>>]
\* return of a string literal of the source
RetMsg(m) == [kind |-> "msg", exc |-> "", msg |-> m, text |-> <<>>, list |-> <<>>]
\* return of a computed string
RetText(t) == [kind |-> "text", exc |-> "", msg |-> "", text |-> t, list |-> <<>>]
\* return of a list of (name, birthday) pairs
RetList(l) == [kind |-> "list", exc |-> "", msg |-> "", text |-> <<>>, list |-> l]
\* raise e(m)
Raise(e, m) == [kind |-> "raise", exc |-> e, msg |-> m, text |-> <<>>, list |-> <<>>]

\* The base class of each exception class the program raises or catches.
ExcBase(e) ==
    CASE e = "PhoneValidationError" -> "Exception"
      [] e = "BirthdayError" -> "Exception"
      [] e = "ValueError" -> "Exception"
      [] e = "KeyError" -> "LookupError"
      [] e = "IndexError" -> "LookupError"
      [] OTHER -> "Exception"

\* Whether "except cls" catches an exception of class e.
Catches(cls, e) == e = cls \/ ExcBase(e) = cls

MsgNameEmpty == "Name cannot be empty"
MsgPhone10 == "Phone number must be a 10-digit number"
MsgBadDate ==
    "Invalid date format for birthday. Birthday should be in the format DD.MM.YYYY"
MsgGiveNamePhone == "Give me name and phone please."
MsgEnterUser == "Enter user name."
MsgBadDateShort == "Invalid date format for birthday"
MsgAdded == "Contact added."
MsgExists == "Contact already exists. Use 'change' to update."
MsgUpdated == "Contact updated."
MsgNotFound == "Contact not found."
MsgNoContacts == "No contacts found."
MsgGiveRemove == "Give me the name of the contact you want to remove."
MsgRemoved == "Contact removed."
MsgGiveBirthday == "Give me name and date of birth in the format DD.MM.YYYY."
MsgBirthdayAdded == "Birthday added."
MsgBirthdayNotSet == "Birthday not set."
MsgHello == "How can I help you?"
MsgInvalid == "Invalid command."
MsgGoodBye == "Good bye!"
MsgNoUpcoming == "No upcoming birthdays in the next week."

-----------------------------------------------------------------------------
(* The calendar of datetime.                                                 *)

PhoneLen == 10
MinYear == 1
DaysPerWeek == 7

IsLeap(y) == (y % 4 = 0) /\ ((y % 100 # 0) \/ (y % 400 = 0))

DaysInMonth(y, m) ==
    IF m = 2 THEN (IF IsLeap(y) THEN 29 ELSE 28)
    ELSE IF m \in {4, 6, 9, 11} THEN 30 ELSE 31

RECURSIVE DaysBeforeMonth(_, _)
DaysBeforeMonth(y, m) ==
    IF m = 1 THEN 0 ELSE DaysBeforeMonth(y, m - 1) + DaysInMonth(y, m - 1)

DaysBeforeYear(y) ==
    (y - 1) * 365 + ((y - 1) \div 4) - ((y - 1) \div 100) + ((y - 1) \div 400)

\* datetime.toordinal(): the day number of a date, 1 for 01.01.0001.
Ordinal(y, m, d) == DaysBeforeYear(y) + DaysBeforeMonth(y, m) + d

\* a < b on datetimes: the date first, then the time of day.
DtLess(a, b) == a.ord < b.ord \/ (a.ord = b.ord /\ a.tod < b.tod)
DtLessEq(a, b) == DtLess(a, b) \/ (a.ord = b.ord /\ a.tod = b.tod)

-----------------------------------------------------------------------------
(* datetime.strptime(value, "%d.%m.%Y")                                      *)

RECURSIVE SplitOnFrom(_, _, _, _, _)
SplitOnFrom(s, sep, i, cur, acc) ==
    IF i > Len(s) THEN Append(acc, cur)
    ELSE IF s[i] = sep
         THEN SplitOnFrom(s, sep, i + 1, <<>>, Append(acc, cur))
         ELSE SplitOnFrom(s, sep, i + 1, Append(cur, s[i]), acc)

\* The pieces of s between the occurrences of the character sep.
SplitOn(s, sep) == SplitOnFrom(s, sep, 1, <<>>, <<>>)

OneToNine(c) == IsAsciiDigit(c) /\ c # "0"

\* %d : 3[0-1] | [1-2]\d | 0[1-9] | [1-9] | " "[1-9]
MatchDay(t) ==
    \/ Len(t) = 2 /\ t[1] = "3" /\ t[2] \in {"0", "1"}
    \/ Len(t) = 2 /\ t[1] \in {"1", "2"} /\ IsDecimalChar(t[2])
    \/ Len(t) = 2 /\ t[1] = "0" /\ OneToNine(t[2])
    \/ Len(t) = 1 /\ OneToNine(t[1])
    \/ Len(t) = 2 /\ t[1] = " " /\ OneToNine(t[2])

\* %m : 1[0-2] | 0[1-9] | [1-9]
MatchMonth(t) ==
    \/ Len(t) = 2 /\ t[1] = "1" /\ t[2] \in {"0", "1", "2"}
    \/ Len(t) = 2 /\ t[1] = "0" /\ OneToNine(t[2])
    \/ Len(t) = 1 /\ OneToNine(t[1])

\* %Y : \d\d\d\d
MatchYear(t) == Len(t) = 4 /\ \A i \in 1..4 : IsDecimalChar(t[i])

RECURSIVE IntOf(_)
\* int() of a string of decimal characters, a leading space skipped.
IntOf(t) ==
    IF t = <<>> THEN 0
    ELSE IF t[Len(t)] = " " THEN 0
    ELSE 10 * IntOf(SubSeq(t, 1, Len(t) - 1)) + DigitVal(t[Len(t)])

NoDate == [y |-> 0, m |-> 0, d |-> 0]

\* [ok, date]: ok is FALSE where strptime raises ValueError.
strptime(value) ==
    LET parts == SplitOn(value, ".") IN
    IF Len(parts) # 3 THEN [ok |-> FALSE, date |-> NoDate]
    ELSE IF ~(MatchDay(parts[1]) /\ MatchMonth(parts[2]) /\ MatchYear(parts[3]))
    THEN [ok |-> FALSE, date |-> NoDate]
    ELSE LET d == IntOf(parts[1])
             m == IntOf(parts[2])
             y == IntOf(parts[3])
         IN IF y < MinYear \/ d > DaysInMonth(y, m)
            THEN [ok |-> FALSE, date |-> NoDate]
            ELSE [ok |-> TRUE, date |-> [y |-> y, m |-> m, d |-> d]]

-----------------------------------------------------------------------------
(* Field, Name, Phone, Birthday: a constructor returns the stored value      *)
(* (RetText) or raises.                                                      *)

\* Field.__str__
FieldStr(value) == value

Name(value) ==
    IF value = <<>> THEN Raise("ValueError", MsgNameEmpty) ELSE RetText(value)

Phone(value) ==
    IF ~isdigit(value) \/ Len(value) # PhoneLen
    THEN Raise("PhoneValidationError", MsgPhone10)
    ELSE RetText(value)

Birthday(value) ==
    IF ~strptime(value).ok
    THEN Raise("ValueError", MsgBadDate)
    ELSE RetText(value)

-----------------------------------------------------------------------------
(* Record. A Record is [name, phones, birthday]: phones is the list of the   *)
(* Phone values, birthday is <<>> (None) or <<value>>.                       *)
(* A method returns [rec |-> the record afterwards, res |-> the result].     *)

None == <<>>
Some(v) == <<v>>

NoRec == [name |-> <<>>, phones |-> <<>>, birthday |-> None]

\* Record.__init__: [rec, res], res a raise where Name raises.
Record(name) ==
    LET n == Name(name) IN
    IF n.kind = "raise" THEN [rec |-> NoRec, res |-> n]
    ELSE [rec |-> [name |-> name, phones |-> <<>>, birthday |-> None],
          res |-> RetNone]

Record_add_phone(r, phone) ==
    LET p == Phone(phone) IN
    IF p.kind = "raise"
    THEN IF Catches("ValueError", p.exc)
         THEN [rec |-> r, res |-> RetMsg(p.msg)]
         ELSE [rec |-> r, res |-> p]
    ELSE [rec |-> [r EXCEPT !.phones = Append(@, phone)], res |-> RetNone]

\* The index of the first phone whose value is v, 0 when there is none.
FirstIndex(phones, v) ==
    IF \E i \in 1..Len(phones) : phones[i] = v
    THEN CHOOSE i \in 1..Len(phones) :
            phones[i] = v /\ \A j \in 1..(i - 1) : phones[j] # v
    ELSE 0

RemoveAt(s, i) == SubSeq(s, 1, i - 1) \o SubSeq(s, i + 1, Len(s))

\* remove_phone removing every phone equal to the value, not the first only.
Record_remove_every(r, phone) ==
    [rec |-> [r EXCEPT !.phones = SelectSeq(@, LAMBDA x : x # phone)],
     res |-> RetNone]

Record_remove_phone(r, phone) ==
    LET i == FirstIndex(r.phones, phone) IN
    IF i = 0 THEN [rec |-> r, res |-> RetNone]
    ELSE [rec |-> [r EXCEPT !.phones = RemoveAt(@, i)], res |-> RetNone]

Record_edit_phone(r, old_phone, new_phone) ==
    LET i == FirstIndex(r.phones, old_phone) IN
    IF i = 0 THEN [rec |-> r, res |-> RetNone]
    ELSE [rec |-> [r EXCEPT !.phones[i] = new_phone], res |-> RetNone]

\* add_birthday storing the value before it is validated.
Record_add_birthday_unchecked(r, birthday) ==
    LET b == Birthday(birthday) IN
    IF b.kind = "raise"
    THEN IF Catches("ValueError", b.exc)
         THEN [rec |-> [r EXCEPT !.birthday = Some(birthday)], res |-> RetMsg(b.msg)]
         ELSE [rec |-> r, res |-> b]
    ELSE [rec |-> [r EXCEPT !.birthday = Some(birthday)],
          res |-> RetMsg(MsgBirthdayAdded)]

Record_add_birthday(r, birthday) ==
    LET b == Birthday(birthday) IN
    IF b.kind = "raise"
    THEN IF Catches("ValueError", b.exc)
         THEN [rec |-> r, res |-> RetMsg(b.msg)]
         ELSE [rec |-> r, res |-> b]
    ELSE [rec |-> [r EXCEPT !.birthday = Some(birthday)],
          res |-> RetMsg(MsgBirthdayAdded)]

\* Record.find_phone: the Phone found, or None.
Record_find_phone(r, phone) ==
    LET i == FirstIndex(r.phones, phone) IN
    IF i = 0 THEN RetNone ELSE RetText(r.phones[i])

\* "; ".join(str(phone) for phone in phones)
PhoneStr(phones) ==
    join(<<";", " ">>, [i \in 1..Len(phones) |-> FieldStr(phones[i])])

-----------------------------------------------------------------------------
(* AddressBook: a dict, kept as the sequence of its items in insertion       *)
(* order, each [key, rec].                                                   *)

Keys(book) == {book[i].key : i \in 1..Len(book)}

\* key in book
Has(book, key) == key \in Keys(book)

IndexOf(book, key) == CHOOSE i \in 1..Len(book) : book[i].key = key

\* book[key], for a key that is there
Get(book, key) == book[IndexOf(book, key)].rec

\* book[key] = r: an existing key keeps its place, a new one goes last.
Put(book, key, r) ==
    IF Has(book, key)
    THEN [book EXCEPT ![IndexOf(book, key)].rec = r]
    ELSE Append(book, [key |-> key, rec |-> r])

\* del book[key], for a key that is there
Del(book, key) == RemoveAt(book, IndexOf(book, key))

\* add_record keyed by the name as it is written in the record.
add_record_as_named(book, r) == Put(book, r.name, r)

add_record(book, r) == Put(book, lower(r.name), r)

\* find looking the name up as given, not lower-cased.
find_as_given(book, name) ==
    IF Has(book, name) THEN Some(Get(book, name)) ELSE None

\* AddressBook.find: None or the record.
find(book, name) ==
    IF Has(book, lower(name)) THEN Some(Get(book, lower(name))) ELSE None

delete(book, name) ==
    IF Has(book, lower(name)) THEN Del(book, lower(name)) ELSE book


\* One record of get_birthdays_per_week's loop, from the i-th item on.
RECURSIVE BirthdaysFrom(_, _, _, _)
BirthdaysFrom(book, today, i, acc) ==
    IF i > Len(book) THEN RetList(acc)
    ELSE LET r == book[i].rec IN
         IF r.birthday = None THEN BirthdaysFrom(book, today, i + 1, acc)
         ELSE LET p == strptime(r.birthday[1]) IN
              IF ~p.ok THEN Raise("ValueError", "time data does not match format")
              \* birthday_date.replace(year=today.year)
              ELSE IF p.date.d > DaysInMonth(today.y, p.date.m)
              THEN Raise("ValueError", "day is out of range for month")
              ELSE LET now == [ord |-> Ordinal(today.y, today.m, today.d),
                               tod |-> today.tod]
                       next_week == [ord |-> now.ord + DaysPerWeek, tod |-> now.tod]
                       birthday_date ==
                           [ord |-> Ordinal(today.y, p.date.m, p.date.d), tod |-> 0]
                   IN IF DtLess(now, birthday_date) /\ DtLessEq(birthday_date, next_week)
                      THEN BirthdaysFrom(book, today, i + 1,
                                         Append(acc, <<r.name, r.birthday[1]>>))
                      ELSE BirthdaysFrom(book, today, i + 1, acc)

\* today is datetime.now(): [y, m, d, tod], tod the time since midnight.
get_birthdays_per_week(book, today) == BirthdaysFrom(book, today, 1, <<>>)

-----------------------------------------------------------------------------
(* The handlers. X_func is the function as written, X is the function        *)
(* behind @input_error. Each returns [book, res].                            *)

\* Inner without its "except PhoneValidationError" clause.
InnerNoPhoneClause(r) ==
    IF r.res.kind # "raise" THEN r
    ELSE IF Catches("ValueError", r.res.exc)
         THEN [book |-> r.book, res |-> RetMsg(MsgGiveNamePhone)]
    ELSE IF Catches("KeyError", r.res.exc)
         THEN [book |-> r.book, res |-> RetMsg(MsgEnterUser)]
    ELSE IF Catches("IndexError", r.res.exc)
         THEN [book |-> r.book, res |-> RetMsg(MsgGiveNamePhone)]
    ELSE IF Catches("BirthdayError", r.res.exc)
         THEN [book |-> r.book, res |-> RetMsg(MsgBadDateShort)]
    ELSE r

\* The except clauses of input_error.inner, in their order, on the outcome r
\* of the wrapped function.
Inner(r) ==
    IF r.res.kind # "raise" THEN r
    ELSE IF Catches("ValueError", r.res.exc)
         THEN [book |-> r.book, res |-> RetMsg(MsgGiveNamePhone)]
    ELSE IF Catches("KeyError", r.res.exc)
         THEN [book |-> r.book, res |-> RetMsg(MsgEnterUser)]
    ELSE IF Catches("IndexError", r.res.exc)
         THEN [book |-> r.book, res |-> RetMsg(MsgGiveNamePhone)]
    ELSE IF Catches("PhoneValidationError", r.res.exc)
         THEN [book |-> r.book, res |-> RetMsg(MsgPhone10)]
    ELSE IF Catches("BirthdayError", r.res.exc)
         THEN [book |-> r.book, res |-> RetMsg(MsgBadDateShort)]
    ELSE r

\* input_error(func)(args): func is called once, Inner handles its outcome.
input_error(r) == CHOOSE x \in {Inner(v) : v \in {r}} : TRUE

\* "a, b = args" on a list that does not hold exactly two items.
UnpackError == Raise("ValueError", "too many values to unpack (expected 2)")

\* add_contact_func calling add_record before add_phone.
add_contact_record_first(args, book) ==
    IF Len(args) < 2 THEN [book |-> book, res |-> RetMsg(MsgGiveNamePhone)]
    ELSE IF Len(args) # 2 THEN [book |-> book, res |-> UnpackError]
    ELSE LET name == args[1]
             phone == args[2]
         IN IF ~Has(book, name)
            THEN LET c == Record(lower(name)) IN
                 IF c.res.kind = "raise" THEN [book |-> book, res |-> c.res]
                 ELSE LET a == Record_add_phone(c.rec, phone) IN
                      IF a.res.kind = "raise"
                      THEN [book |-> add_record(book, c.rec), res |-> a.res]
                      ELSE [book |-> add_record(book, a.rec), res |-> RetMsg(MsgAdded)]
            ELSE [book |-> book, res |-> RetMsg(MsgExists)]

add_contact_func(args, book) ==
    IF Len(args) < 2 THEN [book |-> book, res |-> RetMsg(MsgGiveNamePhone)]
    ELSE IF Len(args) # 2 THEN [book |-> book, res |-> UnpackError]
    ELSE LET name == args[1]
             phone == args[2]
         IN IF ~Has(book, name)
            THEN LET c == Record(lower(name)) IN
                 IF c.res.kind = "raise" THEN [book |-> book, res |-> c.res]
                 ELSE LET a == Record_add_phone(c.rec, phone) IN
                      IF a.res.kind = "raise" THEN [book |-> book, res |-> a.res]
                      ELSE [book |-> add_record(book, a.rec), res |-> RetMsg(MsgAdded)]
            ELSE [book |-> book, res |-> RetMsg(MsgExists)]

add_contact(args, book) == input_error(add_contact_func(args, book))

\* change_contact_func adding the new phone in front of the old ones.
change_contact_prepend(args, book) ==
    IF Len(args) < 2 THEN [book |-> book, res |-> RetMsg(MsgGiveNamePhone)]
    ELSE IF Len(args) # 2 THEN [book |-> book, res |-> UnpackError]
    ELSE LET phone == args[2]
             name == lower(args[1])
         IN IF Has(book, name)
            THEN LET record == Get(book, lower(name))
                     a == Record_add_phone([record EXCEPT !.phones = <<>>], phone)
                 IN IF a.res.kind = "raise" THEN [book |-> book, res |-> a.res]
                    ELSE IF a.res.kind # "none" THEN [book |-> book, res |-> a.res]
                    ELSE [book |-> Put(book, lower(name),
                                       [record EXCEPT !.phones = <<phone>> \o @]),
                          res |-> RetMsg(MsgUpdated)]
            ELSE [book |-> book, res |-> RetMsg(MsgNotFound)]

\* change_contact_func without the removal of the first phone.
change_contact_keep_first(args, book) ==
    IF Len(args) < 2 THEN [book |-> book, res |-> RetMsg(MsgGiveNamePhone)]
    ELSE IF Len(args) # 2 THEN [book |-> book, res |-> UnpackError]
    ELSE LET phone == args[2]
             name == lower(args[1])
         IN IF Has(book, name)
            THEN LET a == Record_add_phone(Get(book, lower(name)), phone)
                     book2 == Put(book, lower(name), a.rec)
                 IN IF a.res.kind = "raise" THEN [book |-> book2, res |-> a.res]
                    ELSE IF a.res.kind # "none" THEN [book |-> book2, res |-> a.res]
                    ELSE [book |-> book2, res |-> RetMsg(MsgUpdated)]
            ELSE [book |-> book, res |-> RetMsg(MsgNotFound)]

change_contact_func(args, book) ==
    IF Len(args) < 2 THEN [book |-> book, res |-> RetMsg(MsgGiveNamePhone)]
    ELSE IF Len(args) # 2 THEN [book |-> book, res |-> UnpackError]
    ELSE LET phone == args[2]
             name == lower(args[1])
         IN IF Has(book, name)
            THEN LET record == Get(book, lower(name))
                     removed == IF record.phones # <<>>
                                THEN Record_remove_phone(record, record.phones[1]).rec
                                ELSE record
                     a == Record_add_phone(removed, phone)
                     book2 == Put(book, lower(name), a.rec)
                 IN IF a.res.kind = "raise" THEN [book |-> book2, res |-> a.res]
                    ELSE IF a.res.kind # "none" THEN [book |-> book2, res |-> a.res]
                    ELSE [book |-> book2, res |-> RetMsg(MsgUpdated)]
            ELSE [book |-> book, res |-> RetMsg(MsgNotFound)]

change_contact(args, book) == input_error(change_contact_func(args, book))

show_phone_func(args, book) ==
    IF Len(args) < 1 THEN [book |-> book, res |-> RetMsg(MsgGiveNamePhone)]
    ELSE LET name == lower(args[1]) IN
         IF Has(book, name)
         THEN [book |-> book, res |-> RetText(PhoneStr(Get(book, lower(name)).phones))]
         ELSE [book |-> book, res |-> RetMsg(MsgNotFound)]

show_phone(args, book) == input_error(show_phone_func(args, book))

show_all_func(args, book) ==
    IF book = <<>> THEN [book |-> book, res |-> RetMsg(MsgNoContacts)]
    ELSE [book |-> book,
          res |-> RetText(join(<<"\n">>,
                    [i \in 1..Len(book) |->
                        capitalize(book[i].key) \o <<":", " ">>
                            \o PhoneStr(book[i].rec.phones)]))]

show_all(args, book) == input_error(show_all_func(args, book))

\* remove_phone_func looking the name up as typed, not lower-cased.
remove_as_typed(args, book) ==
    IF Len(args) < 1 THEN [book |-> book, res |-> RetMsg(MsgGiveRemove)]
    ELSE LET name == args[1] IN
         IF Has(book, name)
         THEN [book |-> Del(book, name), res |-> RetMsg(MsgRemoved)]
         ELSE [book |-> book, res |-> RetMsg(MsgNotFound)]

remove_phone_func(args, book) ==
    IF Len(args) < 1 THEN [book |-> book, res |-> RetMsg(MsgGiveRemove)]
    ELSE LET name == lower(args[1]) IN
         IF Has(book, name)
         THEN [book |-> Del(book, name), res |-> RetMsg(MsgRemoved)]
         ELSE [book |-> book, res |-> RetMsg(MsgNotFound)]

remove_phone(args, book) == input_error(remove_phone_func(args, book))

add_birthday_func(args, book) ==
    IF Len(args) < 2 THEN [book |-> book, res |-> RetMsg(MsgGiveBirthday)]
    ELSE IF Len(args) # 2 THEN [book |-> book, res |-> UnpackError]
    ELSE LET birthday == args[2]
             name == lower(args[1])
         IN IF Has(book, name)
            THEN LET a == Record_add_birthday(Get(book, lower(name)), birthday) IN
                 [book |-> Put(book, lower(name), a.rec), res |-> a.res]
            ELSE [book |-> book, res |-> RetMsg(MsgNotFound)]

add_birthday(args, book) == input_error(add_birthday_func(args, book))

\* show_birthday_func looking the name up as typed, not lower-cased.
show_birthday_as_typed(args, book) ==
    IF Len(args) < 1 THEN [book |-> book, res |-> RetMsg(MsgGiveBirthday)]
    ELSE LET name == args[1] IN
         IF Has(book, name)
         THEN LET birthday == Get(book, name).birthday IN
              IF birthday # None
              THEN [book |-> book, res |-> RetText(birthday[1])]
              ELSE [book |-> book, res |-> RetMsg(MsgBirthdayNotSet)]
         ELSE [book |-> book, res |-> RetMsg(MsgNotFound)]

show_birthday_func(args, book) ==
    IF Len(args) < 1 THEN [book |-> book, res |-> RetMsg(MsgGiveBirthday)]
    ELSE LET name == lower(args[1]) IN
         IF Has(book, name)
         THEN LET birthday == Get(book, lower(name)).birthday IN
              IF birthday # None
              THEN [book |-> book, res |-> RetText(birthday[1])]
              ELSE [book |-> book, res |-> RetMsg(MsgBirthdayNotSet)]
         ELSE [book |-> book, res |-> RetMsg(MsgNotFound)]

show_birthday(args, book) == input_error(show_birthday_func(args, book))

\* parse_input: [res, cmd, args]; res is a raise where "cmd, *args = []" fails.
parse_input(user_input) ==
    LET parts == split(user_input) IN
    IF parts = <<>>
    THEN [res |-> Raise("ValueError", "not enough values to unpack"),
          cmd |-> <<>>, args |-> <<>>]
    ELSE [res |-> RetNone, cmd |-> lower(strip(Head(parts))), args |-> Tail(parts)]

\* load_address_book that ignores the file.
load_empty(f) == <<>>

\* load_address_book: the book in the file, an empty AddressBook with no file.
load_address_book(f) == IF f = None THEN <<>> ELSE f[1]

\* save_address_book: the file afterwards.
save_address_book(book) == Some(book)


-----------------------------------------------------------------------------
(* The command words of main.                                                *)

CmdClose == <<"c","l","o","s","e">>
CmdExit == <<"e","x","i","t">>
CmdHello == <<"h","e","l","l","o">>
CmdAdd == <<"a","d","d">>
CmdChange == <<"c","h","a","n","g","e">>
CmdPhone == <<"p","h","o","n","e">>
CmdAll == <<"a","l","l">>
CmdRemove == <<"r","e","m","o","v","e">>
CmdAddBirthday == <<"a","d","d","-","b","i","r","t","h","d","a","y">>
CmdShowBirthday == <<"s","h","o","w","-","b","i","r","t","h","d","a","y">>
CmdBirthdays == <<"b","i","r","t","h","d","a","y","s">>

KnownCmds == {CmdClose, CmdExit, CmdHello, CmdAdd, CmdChange, CmdPhone, CmdAll,
              CmdRemove, CmdAddBirthday, CmdShowBirthday, CmdBirthdays}

-----------------------------------------------------------------------------
(* The inputs the model draws from.                                          *)

\* The most arguments a generated command line carries.
MaxArgs == 3
\* The most phones the Record operations put in one record.
MaxPhones == 3

NameAl == <<"A","l">>
NameAL == <<"A","L">>
Nameal == <<"a","l">>
Namebo == <<"b","o">>
Names == {NameAl, NameAL, Nameal, Namebo}

Phone1 == <<"1","2","3","4","5","6","7","8","9","0">>
Phone2 == <<"0","9","8","7","6","5","4","3","2","1">>
PhoneShort == <<"1","2">>
PhoneAlpha == <<"1","2","3","4","5","a","b","c","d","e">>
PhoneArabic == <<"1","2","3","4","5","6","7","8","9",ArabicThree>>
PhoneLong == Phone1 \o <<"1">>

DateLeap == <<"2","9",".","0","2",".","2","0","2","4">>
DateMar == <<"0","1",".","0","3",".","1","9","9","0">>
DateShort == <<"1",".","1",".","2","0","2","4">>
DateNone == <<"3","0",".","0","2",".","2","0","2","4">>
DateWord == <<"x">>

Filler == <<"x">>

\* The phones and dates typed on command lines.
LinePhones == {Phone1, Phone2, PhoneShort}
LineDates == {DateLeap, DateShort, DateNone}

\* The values datetime.now() takes.
Todays ==
    { [y |-> 2024, m |-> 2, d |-> 21, tod |-> 1],
      [y |-> 2024, m |-> 2, d |-> 22, tod |-> 1],
      [y |-> 2024, m |-> 2, d |-> 29, tod |-> 0],
      [y |-> 2024, m |-> 12, d |-> 28, tod |-> 1],
      [y |-> 2024, m |-> 12, d |-> 31, tod |-> 0],
      [y |-> 2023, m |-> 12, d |-> 28, tod |-> 0] }

RECURSIVE Pad(_, _)
\* args followed by fillers, k items in all.
Pad(args, k) == IF Len(args) >= k THEN args ELSE Pad(Append(args, Filler), k)

NameArgs ==
    {<<>>} \cup {<<n>> : n \in Names}
           \cup {Pad(<<NameAl>>, k) : k \in 2..MaxArgs}

NamePhoneArgs ==
    {<<>>} \cup {<<n>> : n \in Names}
           \cup {<<n, p>> : n \in Names, p \in LinePhones}
           \cup {Pad(<<NameAl, Phone1>>, k) : k \in 3..MaxArgs}

NameDateArgs ==
    {<<>>} \cup {<<n>> : n \in Names}
           \cup {<<n, d>> : n \in Names, d \in LineDates}
           \cup {Pad(<<NameAl, DateShort>>, k) : k \in 3..MaxArgs}

\* The line a user types: the word and the arguments, one space between.
Line(cmd, args) == join(<<" ">>, <<cmd>> \o args)

Lines ==
    {Line(CmdAdd, a) : a \in NamePhoneArgs}
    \cup {Line(CmdChange, a) : a \in NamePhoneArgs}
    \cup {Line(CmdAddBirthday, a) : a \in NameDateArgs}
    \cup {Line(c, a) : c \in {CmdPhone, CmdRemove, CmdShowBirthday}, a \in NameArgs}
    \cup {Line(c, <<>>) : c \in {CmdAll, CmdHello, CmdBirthdays, CmdClose, CmdExit}}
    \cup {Line(CmdAll, <<Filler>>)}
    \cup { <<>>, <<" ", " ">>, <<"q">>,
           <<" ", "A", "L", "L", " ">>,
           <<"E", "x", "i", "t">>,
           <<"\t", "A", "d", "d", " ", " ", "b", "o", "\t">> \o Phone2 }

-----------------------------------------------------------------------------
(* main: the command loop. pc is "loop" while it reads commands, "done"      *)
(* after close/exit, "crashed" once an exception has left the loop.          *)
(* out is what the last step printed, or the exception that ended the run;   *)
(* last is the command line of the last step as parse_input returned it.     *)
(* Each step reads one line; p is what parse_input made of it.               *)

\* parse_input of every line a user types.
Inputs == {parse_input(line) : line \in Lines}

NoLast == [cmd |-> <<>>, args |-> <<>>, today |-> NoDay]

Init ==
    /\ file = None
    /\ contacts = load_address_book(None)
    /\ rec = NoRec
    /\ out = RetMsg("Welcome to the assistant bot!")
    /\ last = NoLast
    /\ pc = "loop"

\* A line on which parse_input raises: nothing in main catches it.
ParseCrash(p) ==
    /\ pc = "loop"
    /\ p.res.kind = "raise"
    /\ out' = p.res
    /\ pc' = "crashed"
    /\ last' = NoLast
    /\ UNCHANGED <<contacts, rec, file>>

\* The line parsed to the command word c.
Dispatched(p, c) ==
    /\ pc = "loop"
    /\ p.res.kind # "raise"
    /\ p.cmd = c

\* "result = handler(args, contacts); print(result)" with the outcome r of the
\* handler: an exception that left the handler ends the loop.
PrintResult(p, r) ==
    /\ contacts' = r.book
    /\ out' = r.res
    /\ pc' = IF r.res.kind = "raise" THEN "crashed" ELSE "loop"
    /\ last' = [cmd |-> p.cmd, args |-> p.args, today |-> NoDay]
    /\ UNCHANGED <<rec, file>>

DoAdd(p) ==
    /\ Dispatched(p, CmdAdd)
    /\ \E r \in {add_contact(p.args, contacts)} : PrintResult(p, r)

DoChange(p) ==
    /\ Dispatched(p, CmdChange)
    /\ \E r \in {change_contact(p.args, contacts)} : PrintResult(p, r)

DoPhone(p) ==
    /\ Dispatched(p, CmdPhone)
    /\ \E r \in {show_phone(p.args, contacts)} : PrintResult(p, r)

DoAll(p) ==
    /\ Dispatched(p, CmdAll)
    /\ \E r \in {show_all(p.args, contacts)} : PrintResult(p, r)

DoRemove(p) ==
    /\ Dispatched(p, CmdRemove)
    /\ \E r \in {remove_phone(p.args, contacts)} : PrintResult(p, r)

DoAddBirthday(p) ==
    /\ Dispatched(p, CmdAddBirthday)
    /\ \E r \in {add_birthday(p.args, contacts)} : PrintResult(p, r)

DoShowBirthday(p) ==
    /\ Dispatched(p, CmdShowBirthday)
    /\ \E r \in {show_birthday(p.args, contacts)} : PrintResult(p, r)

\* The lines main prints for the list get_birthdays_per_week returned.
BirthdayLines(l) == [i \in 1..Len(l) |-> <<capitalize(l[i][1]), l[i][2]>>]

DoBirthdays(p, today) ==
    /\ pc = "loop"
    /\ p.res.kind # "raise"
    /\ p.cmd = CmdBirthdays
    /\ \E r \in {get_birthdays_per_week(contacts, today)} :
        /\ out' = IF r.kind = "raise" THEN r
                  ELSE IF r.list # <<>> THEN RetList(BirthdayLines(r.list))
                  ELSE RetMsg(MsgNoUpcoming)
        /\ pc' = IF r.kind = "raise" THEN "crashed" ELSE "loop"
    /\ last' = [cmd |-> p.cmd, args |-> p.args, today |-> today]
    /\ UNCHANGED <<contacts, rec, file>>

DoHello(p) ==
    /\ pc = "loop"
    /\ p.res.kind # "raise"
    /\ p.cmd = CmdHello
    /\ out' = RetMsg(MsgHello)
    /\ last' = [cmd |-> p.cmd, args |-> p.args, today |-> NoDay]
    /\ UNCHANGED <<contacts, rec, file, pc>>

DoInvalid(p) ==
    /\ pc = "loop"
    /\ p.res.kind # "raise"
    /\ p.cmd \notin KnownCmds
    /\ out' = RetMsg(MsgInvalid)
    /\ last' = [cmd |-> p.cmd, args |-> p.args, today |-> NoDay]
    /\ UNCHANGED <<contacts, rec, file, pc>>

DoClose(p) ==
    /\ pc = "loop"
    /\ p.res.kind # "raise"
    /\ p.cmd \in {CmdClose, CmdExit}
    /\ file' = save_address_book(contacts)
    /\ out' = RetMsg(MsgGoodBye)
    /\ pc' = "done"
    /\ last' = [cmd |-> p.cmd, args |-> p.args, today |-> NoDay]
    /\ UNCHANGED <<contacts, rec>>

Next ==
    \E p \in Inputs :
        \/ ParseCrash(p)
        \/ DoAdd(p)
        \/ DoChange(p)
        \/ DoPhone(p)
        \/ DoAll(p)
        \/ DoRemove(p)
        \/ DoAddBirthday(p)
        \/ DoShowBirthday(p)
        \/ \E today \in Todays : DoBirthdays(p, today)
        \/ DoHello(p)
        \/ DoInvalid(p)
        \/ DoClose(p)

Spec == Init /\ [][Next]_vars

-----------------------------------------------------------------------------
(* The Record operations called directly on one record, rec.                 *)
(* last names the method and its arguments, out is what it returned or       *)
(* raised.                                                                   *)

OpAddPhone == <<"Record.add_phone">>
OpRemovePhone == <<"Record.remove_phone">>
OpEditPhone == <<"Record.edit_phone">>
OpFindPhone == <<"Record.find_phone">>
OpAddBirthday == <<"Record.add_birthday">>

\* The strings handed to the phone methods, and to add_birthday.
PhoneVals == {Phone1, Phone2, PhoneShort, PhoneAlpha}
DateVals == {DateLeap, DateNone, DateWord}

InitRecord ==
    /\ file = None
    /\ contacts = <<>>
    /\ rec = Record(Namebo).rec
    /\ out = RetNone
    /\ last = NoLast
    /\ pc = "loop"

RecAddPhone(v) ==
    /\ Len(rec.phones) < MaxPhones
    /\ \E r \in {Record_add_phone(rec, v)} :
        /\ rec' = r.rec
        /\ out' = r.res
    /\ last' = [cmd |-> OpAddPhone, args |-> <<v>>, today |-> NoDay]
    /\ UNCHANGED <<contacts, pc, file>>

RecRemovePhone(v) ==
    /\ \E r \in {Record_remove_phone(rec, v)} :
        /\ rec' = r.rec
        /\ out' = r.res
    /\ last' = [cmd |-> OpRemovePhone, args |-> <<v>>, today |-> NoDay]
    /\ UNCHANGED <<contacts, pc, file>>

RecEditPhone(old, new) ==
    /\ \E r \in {Record_edit_phone(rec, old, new)} :
        /\ rec' = r.rec
        /\ out' = r.res
    /\ last' = [cmd |-> OpEditPhone, args |-> <<old, new>>, today |-> NoDay]
    /\ UNCHANGED <<contacts, pc, file>>

RecFindPhone(v) ==
    /\ out' = Record_find_phone(rec, v)
    /\ last' = [cmd |-> OpFindPhone, args |-> <<v>>, today |-> NoDay]
    /\ UNCHANGED <<contacts, rec, pc, file>>

RecAddBirthday(d) ==
    /\ \E r \in {Record_add_birthday(rec, d)} :
        /\ rec' = r.rec
        /\ out' = r.res
    /\ last' = [cmd |-> OpAddBirthday, args |-> <<d>>, today |-> NoDay]
    /\ UNCHANGED <<contacts, pc, file>>

NextRecord ==
    \/ \E v \in PhoneVals : RecAddPhone(v)
    \/ \E v \in PhoneVals : RecRemovePhone(v)
    \/ \E old \in PhoneVals, new \in PhoneVals : RecEditPhone(old, new)
    \/ \E v \in PhoneVals : RecFindPhone(v)
    \/ \E d \in DateVals : RecAddBirthday(d)

SpecRecord == InitRecord /\ [][NextRecord]_vars

-----------------------------------------------------------------------------
(* The AddressBook methods called directly. rec is the record last handed    *)
(* to add_record; out is what find returned: None, or the record found.      *)

OpAddRecord == <<"AddressBook.add_record">>
OpFind == <<"AddressBook.find">>
OpDelete == <<"AddressBook.delete">>

\* The records handed to add_record: built by Record and its methods.
RecordsIn ==
    { r3.rec : r3 \in
        { Record_add_birthday(r2.rec, d) : r2 \in
            { Record_add_phone(r1.rec, p) : r1 \in {Record(n) : n \in Names},
                                           p \in {Phone1, PhoneShort} },
          d \in {DateLeap, DateNone} } }

\* The names looked up and deleted.
FindNames == Names \cup {<<"B","O">>, <<"a">>}

InitBook ==
    /\ file = None
    /\ contacts = <<>>
    /\ rec = NoRec
    /\ out = RetNone
    /\ last = NoLast
    /\ pc = "loop"

BookAddRecord(r) ==
    /\ contacts' = add_record(contacts, r)
    /\ rec' = r
    /\ out' = RetNone
    /\ last' = [cmd |-> OpAddRecord, args |-> <<r.name>>, today |-> NoDay]
    /\ UNCHANGED <<pc, file>>

BookFind(n) ==
    /\ out' = RetList(find(contacts, n))
    /\ last' = [cmd |-> OpFind, args |-> <<n>>, today |-> NoDay]
    /\ UNCHANGED <<contacts, rec, pc, file>>

BookDelete(n) ==
    /\ contacts' = delete(contacts, n)
    /\ out' = RetNone
    /\ last' = [cmd |-> OpDelete, args |-> <<n>>, today |-> NoDay]
    /\ UNCHANGED <<rec, pc, file>>

NextBook ==
    \/ \E r \in RecordsIn : BookAddRecord(r)
    \/ \E n \in FindNames : BookFind(n)
    \/ \E n \in FindNames : BookDelete(n)

SpecBook == InitBook /\ [][NextBook]_vars

-----------------------------------------------------------------------------
(* Runs of main one after another over the same file: a run starts by        *)
(* loading the file, and the next one starts once the loop has ended.        *)

\* The lines typed in these runs.
PersistLines ==
    { Line(CmdAdd, <<Nameal, Phone1>>),
      Line(CmdAdd, <<Namebo, Phone2>>),
      Line(CmdChange, <<Nameal, Phone2>>),
      Line(CmdRemove, <<Nameal>>),
      Line(CmdAddBirthday, <<Namebo, DateMar>>),
      Line(CmdClose, <<>>),
      Line(CmdExit, <<>>),
      <<>> }

PersistInputs == {parse_input(line) : line \in PersistLines}

\* main is started again: it loads the address book from the file.
Start ==
    /\ pc \in {"done", "crashed"}
    /\ contacts' = load_address_book(file)
    /\ out' = RetMsg("Welcome to the assistant bot!")
    /\ last' = NoLast
    /\ pc' = "loop"
    /\ UNCHANGED <<rec, file>>

\* input() finds the end of the input: EOFError leaves main.
EndOfInput ==
    /\ pc = "loop"
    /\ out' = Raise("EOFError", "EOF when reading a line")
    /\ pc' = "crashed"
    /\ last' = NoLast
    /\ UNCHANGED <<contacts, rec, file>>

NextPersist ==
    \/ \E p \in PersistInputs :
            \/ ParseCrash(p)
            \/ DoAdd(p)
            \/ DoChange(p)
            \/ DoRemove(p)
            \/ DoAddBirthday(p)
            \/ DoClose(p)
    \/ EndOfInput
    \/ Start

SpecPersist == Init /\ [][NextPersist]_vars

-----------------------------------------------------------------------------
(* The constructors Phone and Birthday called on a string. The string is     *)
(* drawn at the start and kept in last.args; out is what the constructor     *)
(* returned (the value of the new field) or raised.                          *)

OpPhone == <<"Phone">>
OpBirthday == <<"Birthday">>

\* The longest tail put behind the first eight digits of a phone string.
MaxTail == 3

RECURSIVE Tails(_)
\* The strings of at most k characters: digits, other characters, and the
\* characters outside 0-9 that str.isdigit() accepts.
Tails(k) ==
    IF k = 0 THEN {<<>>}
    ELSE LET shorter == Tails(k - 1) IN
         shorter \cup {Append(t, c) : t \in shorter,
                                      c \in {"0", "7", "a", " ", ArabicThree, SuperTwo}}

\* The strings handed to the constructors: phone-like strings of 8 to
\* 8 + MaxTail characters, the empty string, and date-like strings put
\* together from a day, a month and a year text.
FieldStrings ==
    LET DayTexts == { <<"1">>, <<"0","1">>, <<"2","9">>, <<"3","0">>, <<"3","1">>,
                      <<"0","0">>, <<"3","2">>, <<" ","1">>, <<"1",ArabicThree>>,
                      <<"0","0","1">>, <<>> }
        MonthTexts == { <<"1">>, <<"0","1">>, <<"2">>, <<"0","2">>, <<"0","4">>,
                        <<"1","2">>, <<"1","3">>, <<"0","0">>, <<"1",ArabicThree>> }
        YearTexts == { <<"2","0","2","4">>, <<"2","0","2","3">>, <<"1","9","0","0">>,
                       <<"2","0","0","0">>, <<"0","0","0","0">>, <<"2","4">>,
                       <<"0","2","0","2","4">>, <<"2","0","2",ArabicThree>>,
                       <<"2","0","2","4"," ">> }
    IN {<<"1","2","3","4","5","6","7","8">> \o t : t \in Tails(MaxTail)}
       \cup {join(<<".">>, <<d, m, y>>) : d \in DayTexts, m \in MonthTexts, y \in YearTexts}
       \cup { <<>>, DateWord, Phone1, PhoneAlpha, PhoneLong,
              <<"0","1","-","0","1","-","2","0","2","4">>,
              <<"0","1","0","1","2","0","2","4">>,
              <<"0","1",".","0","1">>,
              <<"2","0","2","4",".","0","1",".","0","1">>,
              <<"0","1",".","0","1",".","2","0","2","4",".">> }

InitField ==
    /\ file = None
    /\ contacts = <<>>
    /\ rec = NoRec
    /\ out = RetNone
    /\ \E v \in FieldStrings : last = [cmd |-> <<>>, args |-> <<v>>, today |-> NoDay]
    /\ pc = "loop"

\* Phone(value)
NewPhone ==
    /\ last.cmd = <<>>
    /\ out' = Phone(last.args[1])
    /\ last' = [last EXCEPT !.cmd = OpPhone]
    /\ UNCHANGED <<contacts, rec, pc, file>>

\* Birthday(value)
NewBirthday ==
    /\ last.cmd = <<>>
    /\ out' = Birthday(last.args[1])
    /\ last' = [last EXCEPT !.cmd = OpBirthday]
    /\ UNCHANGED <<contacts, rec, pc, file>>

NextField == NewPhone \/ NewBirthday

SpecField == InitField /\ [][NextField]_vars

-----------------------------------------------------------------------------
(* The AddressBook methods add_record and delete called directly, mixed with *)
(* the commands of main that change the address book.                        *)

\* The records handed to add_record: built by Record and add_phone.
KeyRecords ==
    { r.rec : r \in { Record_add_phone(Record(n).rec, Phone1) :
                        n \in {NameAl, NameAL, Namebo} } }

\* parse_input of the lines typed.
KeyInputs ==
    { parse_input(line) : line \in
        { Line(CmdAdd, <<NameAl, Phone2>>),
          Line(CmdAdd, <<Nameal, Phone2>>),
          Line(CmdAdd, <<Namebo, PhoneShort>>),
          Line(CmdChange, <<NameAL, Phone2>>),
          Line(CmdChange, <<Nameal, PhoneShort>>),
          Line(CmdRemove, <<NameAl>>),
          Line(CmdAddBirthday, <<NameAL, DateLeap>>) } }

NextKeys ==
    \/ \E r \in KeyRecords : BookAddRecord(r)
    \/ \E n \in FindNames : BookDelete(n)
    \/ \E p \in KeyInputs :
            \/ DoAdd(p)
            \/ DoChange(p)
            \/ DoRemove(p)
            \/ DoAddBirthday(p)

SpecKeys == InitBook /\ [][NextKeys]_vars

-----------------------------------------------------------------------------
(* The properties checked.                                                   *)

\* A string of exactly ten of the characters 0-9.
TenDigitString(v) ==
    /\ Len(v) = 10
    /\ \A i \in 1..Len(v) :
          v[i] \in {"0", "1", "2", "3", "4", "5", "6", "7", "8", "9"}

NumberOf(a, b) == 10 * DigitVal(a) + DigitVal(b)

\* A string DD.MM.YYYY that names a day of the calendar.
CalendarDate(v) ==
    /\ Len(v) = 10
    /\ v[3] = "." /\ v[6] = "."
    /\ \A i \in {1, 2, 4, 5, 7, 8, 9, 10} : IsAsciiDigit(v[i])
    /\ LET d == NumberOf(v[1], v[2])
           m == NumberOf(v[4], v[5])
           y == 100 * NumberOf(v[7], v[8]) + NumberOf(v[9], v[10])
       IN m \in 1..12 /\ y >= 1 /\ d \in 1..DaysInMonth(y, m)

HandlerCmds ==
    {CmdAdd, CmdChange, CmdPhone, CmdAll, CmdRemove, CmdAddBirthday, CmdShowBirthday}

\* C1: add(name, phone) on a book that already holds the key lower(name)
\* returns the already-exists message and leaves the address book unchanged.
C1_AddExistingIsRejected ==
    [][ (/\ last'.cmd = CmdAdd
         /\ Len(last'.args) = 2
         /\ Has(contacts, lower(last'.args[1])))
        => (out' = RetMsg(MsgExists) /\ contacts' = contacts) ]_vars

\* C2: the command loop ends only by close/exit, never by an exception that
\* leaves it, whatever line is read.
C2_LoopEndsOnlyByClose ==
    pc # "loop" => (pc = "done" /\ last.cmd \in {CmdClose, CmdExit})

\* C3: Record.add_phone of a value that is no 10-digit string does not raise:
\* it returns the failure message and leaves the phones unchanged.
C3_AddPhoneReturnsFailure ==
    [][ (last'.cmd = OpAddPhone /\ ~TenDigitString(last'.args[1]))
        => (out'.kind = "msg" /\ rec'.phones = rec.phones) ]_vars

\* C4: after any sequence of add_phone, remove_phone and edit_phone, every
\* phone of the record is a string of exactly 10 decimal digits.
C4_PhonesAreTenDigits ==
    \A i \in 1..Len(rec.phones) : TenDigitString(rec.phones[i])

\* C5: each handler, for an argument list of any length and any address book,
\* returns a string; no exception leaves it.
C5_HandlersReturnStrings ==
    last.cmd \in HandlerCmds => (out.kind \in {"msg", "text"} /\ pc = "loop")

\* A handler turned an invalid phone, and one too many arguments, into a message.
C5_Witness ==
    /\ last.cmd = CmdChange
    /\ Len(last.args) = 2
    /\ ~TenDigitString(last.args[2])
    /\ Has(contacts, lower(last.args[1]))
    /\ out = RetMsg(MsgPhone10)

DayOfYear(y, m, d) == DaysBeforeMonth(y, m) + d

\* How many days after today the birthday written in value falls, both taken
\* in today's year.
DaysAhead(value, today) ==
    DayOfYear(today.y, strptime(value).date.m, strptime(value).date.d)
        - DayOfYear(today.y, today.m, today.d)

\* The (name, birthday) pairs of the contacts whose birthday is 1 to 7 days
\* ahead, in the order of the book.
ExpectedUpcoming(book, today) ==
    LET Upcoming(item) ==
            /\ item.rec.birthday # None
            /\ DaysAhead(item.rec.birthday[1], today) \in 1..7
        chosen == SelectSeq(book, Upcoming)
    IN [i \in 1..Len(chosen) |-> <<chosen[i].rec.name, chosen[i].rec.birthday[1]>>]

\* C6: get_birthdays_per_week returns exactly the pairs of the contacts whose
\* birthday, placed in the current year, falls 1 to 7 days after today, in the
\* insertion order of the address book.
C6_BirthdaysOfTheWeek ==
    last.cmd = CmdBirthdays
    => get_birthdays_per_week(contacts, last.today)
         = RetList(ExpectedUpcoming(contacts, last.today))

\* C7: with birthdays that add-birthday accepted, the birthdays command
\* completes for every current date; no exception reaches the command loop.
C7_BirthdaysNeverRaises ==
    last.cmd = CmdBirthdays => (out.kind # "raise" /\ pc = "loop")

\* C8: add(name, p) with a valid phone on a name not yet present adds the
\* contact and phone(name) then returns exactly p; change(name, q) with a valid
\* phone on an existing contact updates it and phone(name) then returns
\* exactly q.
C8_PhoneAfterAddAndChange ==
    [][ /\ (/\ last'.cmd = CmdAdd
            /\ Len(last'.args) = 2
            /\ TenDigitString(last'.args[2])
            /\ ~Has(contacts, lower(last'.args[1])))
           => /\ out' = RetMsg(MsgAdded)
              /\ show_phone(<<last'.args[1]>>, contacts').res = RetText(last'.args[2])
        /\ (/\ last'.cmd = CmdChange
            /\ Len(last'.args) = 2
            /\ TenDigitString(last'.args[2])
            /\ Has(contacts, lower(last'.args[1])))
           => /\ out' = RetMsg(MsgUpdated)
              /\ show_phone(<<last'.args[1]>>, contacts').res = RetText(last'.args[2])
      ]_vars

\* change replaced the one phone of a contact named in another letter case.
C8_Witness ==
    /\ last.cmd = CmdChange
    /\ out = RetMsg(MsgUpdated)
    /\ last.args = <<NameAL, Phone2>>
    /\ show_phone(<<NameAL>>, contacts).res = RetText(Phone2)

\* C9: add-birthday(name, d) with a valid date on an existing contact sets the
\* birthday, also over an earlier one, and show-birthday of every case variant
\* of name then returns exactly d; show-birthday returns the not-found message
\* for a name with no contact and the not-set message for a contact with no
\* birthday.
C9_BirthdayRoundTrip ==
    [][ /\ (/\ last'.cmd = CmdAddBirthday
            /\ Len(last'.args) = 2
            /\ CalendarDate(last'.args[2])
            /\ Has(contacts, lower(last'.args[1])))
           => /\ out' = RetMsg(MsgBirthdayAdded)
              /\ \A n \in Names :
                    lower(n) = lower(last'.args[1])
                    => show_birthday(<<n>>, contacts').res = RetText(last'.args[2])
        /\ (last'.cmd = CmdShowBirthday /\ Len(last'.args) >= 1)
           => /\ ~Has(contacts, lower(last'.args[1])) => out' = RetMsg(MsgNotFound)
              /\ (/\ Has(contacts, lower(last'.args[1]))
                  /\ Get(contacts, lower(last'.args[1])).birthday = None)
                 => out' = RetMsg(MsgBirthdayNotSet)
      ]_vars

\* add-birthday, typed with capital letters, replaced an earlier birthday.
C9_Witness ==
    /\ last.cmd = CmdAddBirthday
    /\ last.args = <<NameAL, DateLeap>>
    /\ out = RetMsg(MsgBirthdayAdded)
    /\ Has(contacts, Nameal)
    /\ Get(contacts, Nameal).birthday = Some(DateLeap)

\* C10: after add_record(record), find(n) returns that record for every case
\* variant n of its name; find returns nothing for a name whose lower-cased
\* form is no key, and the record stored under the key otherwise.
C10_FindAfterAddRecord ==
    /\ last.cmd = OpAddRecord
       => \A n \in FindNames :
             lower(n) = lower(rec.name) => find(contacts, n) = Some(rec)
    /\ last.cmd = OpFind
       => IF \E i \in 1..Len(contacts) : contacts[i].key = lower(last.args[1])
          THEN \E i \in 1..Len(contacts) :
                  /\ contacts[i].key = lower(last.args[1])
                  /\ out = RetList(Some(contacts[i].rec))
          ELSE out = RetList(None)

\* find, asked in capitals, returned the record added under another spelling.
C10_Witness ==
    /\ last.cmd = OpFind
    /\ last.args = <<NameAL>>
    /\ out.list # None
    /\ out.list[1].name = NameAl


\* C11: the file is written only by close/exit and then holds the whole
\* address book in memory; a run started afterwards begins with exactly the
\* book in the file, and with an empty book when there is no file; a run that
\* ends in any other way leaves the file as it was.
C11_FileWrittenOnlyOnClose ==
    /\ (file = None => contacts = <<>>)
    /\ [][ /\ (pc = "loop" /\ last'.cmd \in {CmdClose, CmdExit})
               => (file' = Some(contacts) /\ pc' = "done")
           /\ file' # file => (pc = "loop" /\ last'.cmd \in {CmdClose, CmdExit})
           /\ (pc # "loop" /\ pc' = "loop")
               => /\ file' = file
                  /\ contacts' = IF file = None THEN <<>> ELSE file[1]
           /\ pc' = "crashed" => file' = file
         ]_vars

\* A run started after a close began with the two contacts the file holds.
C11_Witness ==
    /\ pc = "loop"
    /\ last = NoLast
    /\ file # None
    /\ Len(file[1]) = 2
    /\ contacts = file[1]


\* C12: Record.remove_phone(v) removes exactly one entry, the first one equal
\* to v, keeping the other entries in their order; with no entry equal to v
\* it changes nothing; it raises nothing and returns nothing in both cases.
C12_RemoveFirstMatchOnly ==
    [][ last'.cmd = OpRemovePhone
        => LET v == last'.args[1]
               n == Len(rec.phones)
               hits == {i \in 1..n : rec.phones[i] = v}
           IN /\ out' = RetNone
              /\ rec'.name = rec.name
              /\ rec'.birthday = rec.birthday
              /\ IF hits = {} THEN rec'.phones = rec.phones
                 ELSE \E i \in hits :
                        /\ \A j \in hits : i <= j
                        /\ Len(rec'.phones) = n - 1
                        /\ \A k \in 1..(n - 1) :
                              rec'.phones[k] = rec.phones[IF k < i THEN k ELSE k + 1]
      ]_vars

\* remove_phone took the first of two equal phones: the second one, behind
\* another phone, is still there.
C12_Witness ==
    /\ last.cmd = OpRemovePhone
    /\ last.args = <<Phone1>>
    /\ rec.phones = <<Phone2, Phone1>>


\* C13: remove(name) on an existing contact, in any letter case of its name,
\* deletes exactly that contact and leaves every other contact unchanged, and
\* phone(name) and show-birthday(name) then report not-found; on an absent
\* name it returns the not-found message and leaves the address book unchanged.
C13_RemoveDeletesOneContact ==
    [][ (last'.cmd = CmdRemove /\ Len(last'.args) >= 1)
        => LET name == last'.args[1] IN
           IF \E i \in 1..Len(contacts) : lower(contacts[i].rec.name) = lower(name)
           THEN /\ out' = RetMsg(MsgRemoved)
                /\ contacts' = SelectSeq(contacts,
                                   LAMBDA it : lower(it.rec.name) # lower(name))
                /\ Len(contacts') = Len(contacts) - 1
                /\ show_phone(<<name>>, contacts').res = RetMsg(MsgNotFound)
                /\ show_birthday(<<name>>, contacts').res = RetMsg(MsgNotFound)
           ELSE /\ out' = RetMsg(MsgNotFound)
                /\ contacts' = contacts
      ]_vars

\* remove, typed in capitals, deleted the contact al and left bo in the book.
C13_Witness ==
    /\ last.cmd = CmdRemove
    /\ last.args = <<NameAL>>
    /\ out = RetMsg(MsgRemoved)
    /\ Has(contacts, Namebo)
    /\ ~Has(contacts, Nameal)


\* C14: Phone(value) succeeds exactly when value is a string of exactly 10
\* decimal digits 0-9, and its text rendering is then value; on every other
\* string it raises the phone validation error.
C14_PhoneTakesTenDigitsOnly ==
    last.cmd = OpPhone
    => IF TenDigitString(last.args[1])
       THEN out.kind = "text" /\ FieldStr(out.text) = last.args[1]
       ELSE out = Raise("PhoneValidationError", MsgPhone10)

\* C15: Birthday(value) succeeds exactly when value is a two-digit day, ".",
\* a two-digit month, ".", a four-digit year and names a day of the calendar;
\* on every other string (30.02.2024, 1.1.2024) it raises ValueError.
C15_BirthdayTakesFullDatesOnly ==
    last.cmd = OpBirthday
    => IF CalendarDate(last.args[1])
       THEN out = RetText(last.args[1])
       ELSE out = Raise("ValueError", MsgBadDate)


\* C16: change(name, phone) on an existing contact with a phone that fails
\* validation returns the phone-validation message and leaves the phone list
\* of the contact exactly as it was before the command.
C16_ChangeInvalidKeepsPhones ==
    [][ (/\ last'.cmd = CmdChange
         /\ Len(last'.args) = 2
         /\ Has(contacts, lower(last'.args[1]))
         /\ Phone(last'.args[2]).kind = "raise")
        => /\ out' = RetMsg(MsgPhone10)
           /\ Has(contacts', lower(last'.args[1]))
           /\ Get(contacts', lower(last'.args[1])).phones
                = Get(contacts, lower(last'.args[1])).phones
      ]_vars

\* C17: add-birthday(name, date) on an existing contact with a date that
\* fails validation returns the invalid-date message and leaves the birthday
\* of the contact (unset, or set earlier) and its phones as they were.
C17_AddBirthdayInvalidKeepsRecord ==
    [][ (/\ last'.cmd = CmdAddBirthday
         /\ Len(last'.args) = 2
         /\ Has(contacts, lower(last'.args[1]))
         /\ Birthday(last'.args[2]).kind = "raise")
        => /\ out' = RetMsg(MsgBadDate)
           /\ Has(contacts', lower(last'.args[1]))
           /\ Get(contacts', lower(last'.args[1])).birthday
                = Get(contacts, lower(last'.args[1])).birthday
           /\ Get(contacts', lower(last'.args[1])).phones
                = Get(contacts, lower(last'.args[1])).phones
           /\ contacts' = contacts
      ]_vars

\* add-birthday with 30.02.2024 was refused for a contact that keeps the
\* birthday set before.
C17_Witness ==
    /\ last.cmd = CmdAddBirthday
    /\ last.args = <<NameAL, DateNone>>
    /\ out = RetMsg(MsgBadDate)
    /\ Has(contacts, Nameal)
    /\ Get(contacts, Nameal).birthday = Some(DateLeap)

\* C18: add(name, phone) for a name not yet present and a phone that fails
\* validation returns the phone-validation message and leaves the address
\* book unchanged; no add creates a contact with an empty phone list.
C18_AddInvalidCreatesNothing ==
    [][ /\ (/\ last'.cmd = CmdAdd
            /\ Len(last'.args) = 2
            /\ ~Has(contacts, lower(last'.args[1]))
            /\ Phone(last'.args[2]).kind = "raise")
           => (out' = RetMsg(MsgPhone10) /\ contacts' = contacts)
        /\ last'.cmd = CmdAdd
           => \A i \in 1..Len(contacts') :
                 contacts'[i].rec.phones = <<>>
                 => \E j \in 1..Len(contacts) : contacts[j] = contacts'[i]
      ]_vars

\* add with the phone 12 was refused for a new name: the book holds bo only.
C18_Witness ==
    /\ last.cmd = CmdAdd
    /\ last.args = <<NameAl, PhoneShort>>
    /\ out = RetMsg(MsgPhone10)
    /\ Keys(contacts) = {Namebo}

\* C19: in every state reached by commands from the empty address book,
\* every contact holds at most one phone.
C19_AtMostOnePhone ==
    \A i \in 1..Len(contacts) : Len(contacts[i].rec.phones) <= 1

\* change gave bo, added with one phone, another phone: bo holds that one only.
C19_Witness ==
    /\ last.cmd = CmdChange
    /\ last.args = <<Namebo, Phone1>>
    /\ out = RetMsg(MsgUpdated)
    /\ Has(contacts, Namebo)
    /\ Get(contacts, Namebo).phones = <<Phone1>>


\* C20: in every state reached by add_record, delete and the commands, every
\* key of the address book is the lower-cased name of the record stored under
\* it, so no two stored records have names that differ only in letter case.
C20_KeysAreLowerCasedNames ==
    /\ \A i \in 1..Len(contacts) : contacts[i].key = lower(contacts[i].rec.name)
    /\ \A i, j \in 1..Len(contacts) :
          lower(contacts[i].rec.name) = lower(contacts[j].rec.name) => i = j

\* A record named in capitals, put in by add_record and then given another
\* phone by the change command, is stored under the lower-cased key.
C20_Witness ==
    /\ Len(contacts) = 2
    /\ contacts[1].rec.name = NameAL
    /\ contacts[1].key = Nameal
    /\ contacts[2].key = Namebo
    /\ last.cmd = CmdChange


====
